---- MODULE Spec2Model ----
(***************************************************************************)
(* Model of the Rationalizer orchestrator (models/rationalizer.py), the    *)
(* Classifier's pooling (models/classifier.py), their training step and    *)
(* the training loop that drives it (runner/trainer.py).                   *)
(*                                                                         *)
(* Tensors are sequences; a batch is a sequence of examples.  Floating     *)
(* point numbers are exact rationals [n, d] extended with the IEEE special *)
(* values: d = 0 stands for +inf (n = 1), -inf (n = -1) and NaN (n = 0).   *)
(* Rounding is not modelled.                                               *)
(***************************************************************************)
EXTENDS Integers, Sequences, FiniteSets, TLC

VARIABLES
    self,             \* the Rationalizer's attributes after __init__
    history_rewards,  \* self.history_rewards, the deque of batch-mean rewards
    grad,             \* per parameter set: the losses whose gradient is accumulated in .grad
    updated,          \* per parameter set: number of optimizer steps applied to it
    calls,            \* number of train_one_step calls made so far
    last,             \* the last operation: its inputs, locals, events and result
    trainer           \* train(model, data, args): loop index, accumulators and records

vars == <<self, history_rewards, grad, updated, calls, last, trainer>>

----------------------------------------------------------------------------
(* Bounds of the model.                                                    *)

\* Padded sequence length of the batches of the training-step specifications.
SeqLen == 2

\* Padded sequence length of the inputs of the regularizer specification.
RegSeqLen == 4

\* Padded sequence length of the inputs of the pooling specification.
PoolSeqLen == 2

\* train_one_step calls explored by Spec.
MaxCalls == 2

\* train_one_step calls explored by SpecHistory (beyond the deque's capacity).
MaxHistoryCalls == 203

\* Calls of SpecHistory whose batch outcome is free; later calls repeat one batch.
VarySteps == 3

\* args.num_iteration and the largest args.eval_iteration of SpecTrainer.
MaxIteration == 3

MaxEvalIteration == 3

----------------------------------------------------------------------------
(* Program constants.                                                      *)

\* deque(maxlen=200)
HistoryMaxLen == 200

\* Classifier.NEG_INF = -1.0e6
NEG_INF == -1000000

----------------------------------------------------------------------------
(* Floating point values as extended rationals.                            *)

AbsInt(i) == IF i < 0 THEN -i ELSE i

SgnInt(i) == IF i < 0 THEN -1 ELSE IF i > 0 THEN 1 ELSE 0

RECURSIVE GCD(_, _)
GCD(a, b) == IF b = 0 THEN a ELSE GCD(b, a % b)

\* The value n/d in lowest terms with a positive denominator; x/0 is +-inf, 0/0 is NaN.
Rat(n, d) ==
    IF d = 0 THEN [n |-> SgnInt(n), d |-> 0]
    ELSE LET g == GCD(AbsInt(n), AbsInt(d))
             s == SgnInt(d)
         IN  [n |-> (s * n) \div g, d |-> (s * d) \div g]

Num(i) == [n |-> i, d |-> 1]

NaN == [n |-> 0, d |-> 0]

IsNaN(a) == a.d = 0 /\ a.n = 0

IsInf(a) == a.d = 0 /\ a.n # 0

IsFinite(a) == a.d # 0

RAdd(a, b) ==
    IF IsNaN(a) \/ IsNaN(b) THEN NaN
    ELSE IF IsInf(a) /\ IsInf(b) THEN (IF a.n = b.n THEN a ELSE NaN)
    ELSE IF IsInf(a) THEN a
    ELSE IF IsInf(b) THEN b
    ELSE Rat(a.n * b.d + b.n * a.d, a.d * b.d)

RNeg(a) == [n |-> -a.n, d |-> a.d]

RSub(a, b) == RAdd(a, RNeg(b))

\* inf * 0 = NaN falls out of Rat(0, 0).
RMul(a, b) == Rat(a.n * b.n, a.d * b.d)

\* x / 0 = +-inf for x # 0, 0 / 0 = NaN, x / inf = 0.
RDiv(a, b) ==
    IF IsNaN(a) \/ IsNaN(b) THEN NaN
    ELSE IF b.n < 0 THEN Rat(-(a.n * b.d), a.d * (-b.n))
    ELSE Rat(a.n * b.d, a.d * b.n)

RAbs(a) == [n |-> AbsInt(a.n), d |-> a.d]

\* a < b on finite values.
RLess(a, b) == a.n * b.d < b.n * a.d

\* The sum of s[lo..hi], by halves (exact arithmetic: the order does not matter).
RECURSIVE SumRange(_, _, _)
SumRange(s, lo, hi) ==
    IF lo > hi THEN Num(0)
    ELSE IF lo = hi THEN s[lo]
    ELSE LET mid == (lo + hi) \div 2
         IN  RAdd(SumRange(s, lo, mid), SumRange(s, mid + 1, hi))

SumSeq(s) == SumRange(s, 1, Len(s))

\* torch.mean / np.mean of a one-dimensional value: sum / count (0/0 = NaN when empty).
MeanSeq(s) == RDiv(SumSeq(s), Num(Len(s)))

\* A tensor of integers (long) converted to float.
ToFloat(s) == [i \in DOMAIN s |-> Num(s[i])]

----------------------------------------------------------------------------
(* Rationalizer.__init__                                                   *)

ParamSets == {"embed", "tagger", "classifier", "anti_classifier"}

OptNames == {"opt_classifier", "opt_tagger", "opt_anti_classifier"}

\* p_grad: the parameter sets of a module tree whose parameters require grad.
\* Only the embedding table can be frozen (embed_layer.weight.requires_grad).
p_grad(modules, fine_tuning) == {p \in modules : p # "embed" \/ fine_tuning}

\* The attributes __init__ creates, by configuration.
InitAttrs(args) ==
    {"embed_layer"}
    \cup (IF args.rationale_tagger
          THEN {"tagger", "classifier", "opt_classifier"}
               \cup (IF args.rationale_binary
                     THEN {"opt_tagger", "history_rewards"} ELSE {})
          ELSE {})
    \cup (IF args.anti_predictor THEN {"anti_classifier", "opt_anti_classifier"} ELSE {})

\* Mutant of InitOpts: the hard-rationale classifier optimizer is built over the
\* embedding layer as well.
InitOptsClassifierWithEmbed(args) ==
    [o \in OptNames |->
        IF o = "opt_classifier" /\ args.rationale_tagger
        THEN (IF args.rationale_binary
              THEN p_grad({"embed", "classifier"}, args.fine_tuning)
              ELSE p_grad({"embed", "tagger", "classifier"}, args.fine_tuning))
        ELSE IF o = "opt_tagger" /\ args.rationale_tagger /\ args.rationale_binary
        THEN p_grad({"tagger"}, args.fine_tuning)
        ELSE IF o = "opt_anti_classifier" /\ args.anti_predictor
        THEN p_grad({"anti_classifier"}, args.fine_tuning)
        ELSE {}]

\* The parameter sets each optimizer is built over.  The soft-rationale optimizer
\* takes p_grad(self) when self holds embed_layer, tagger and classifier only:
\* anti_classifier is assigned after it.
InitOpts(args) ==
    [o \in OptNames |->
        IF o = "opt_classifier" /\ args.rationale_tagger
        THEN (IF args.rationale_binary
              THEN p_grad({"classifier"}, args.fine_tuning)
              ELSE p_grad({"embed", "tagger", "classifier"}, args.fine_tuning))
        ELSE IF o = "opt_tagger" /\ args.rationale_tagger /\ args.rationale_binary
        THEN p_grad({"tagger"}, args.fine_tuning)
        ELSE IF o = "opt_anti_classifier" /\ args.anti_predictor
        THEN p_grad({"anti_classifier"}, args.fine_tuning)
        ELSE {}]

Rationalizer(args) ==
    [args              |-> args,
     rationale_binary  |-> args.rationale_binary,
     rationale_tagger  |-> args.rationale_tagger,
     fine_tuning       |-> args.fine_tuning,
     attrs             |-> InitAttrs(args),
     opts              |-> InitOpts(args),
     lambda_anti       |-> IF args.anti_predictor THEN args.lambda_anti ELSE 0,
     lambda_s          |-> IF args.importance_score THEN args.lambda_s ELSE 0,
     threshold_s       |-> IF args.importance_score THEN args.threshold_s ELSE 0,
     lambda_d          |-> IF args.domain_knowledge THEN args.lambda_d ELSE 0,
     lambda_sparsity   |-> IF args.rationale_regulation THEN args.lambda_sparsity ELSE 0,
     lambda_continuity |-> IF args.rationale_regulation THEN args.lambda_continuity ELSE 0,
     rationale_len     |-> IF args.rationale_regulation THEN args.rationale_len ELSE 0,
     rationale_num     |-> IF args.rationale_regulation THEN args.rationale_num ELSE 0]

\* The reward queue after construction: deque(maxlen=200) holding 0.
InitHistory(args) ==
    IF args.rationale_tagger /\ args.rationale_binary THEN <<Num(0)>> ELSE <<>>

----------------------------------------------------------------------------
(* Tensors.  A batch is a sequence of examples [y, m, s, d]; the outcome of *)
(* the networks on it is a sequence of [z, neg_log_probs, pred, anti_pred], *)
(* one per example: the tagger's selection and negative log probabilities,  *)
(* and the argmax labels of the classifier's and anti classifier's logits.  *)

\* Python's None; a tensor of a batch is never empty.
None == <<>>

Rows(b, f) == [i \in DOMAIN b |-> b[i][f]]

\* z * ref, 1 - z, torch.abs(d), (s >= threshold).long() on one row.
MulRow(a, b) == [t \in DOMAIN a |-> RMul(a[t], b[t])]

Complement(z) == [t \in DOMAIN z |-> RSub(Num(1), z[t])]

\* Mutant of AbsRow: d is used as it is, sign included.
AbsRowSigned(d) == d

AbsRow(d) == [t \in DOMAIN d |-> AbsInt(d[t])]

Binarize(s, threshold) == [t \in DOMAIN s |-> IF s[t] >= threshold THEN 1 ELSE 0]

----------------------------------------------------------------------------
(* Rationalizer.forward                                                    *)

\* Whether z carries gradient back to the tagger: a hard selection is sampled,
\* a soft one is a differentiable weighting.
ZRequiresGrad(slf) == ~slf.rationale_binary

\* The tagger's outputs (z, neg_log_probs) on the batch.
Tagger(slf, net) ==
    [z             |-> Rows(net, "z"),
     neg_log_probs |-> IF slf.rationale_binary THEN Rows(net, "neg_log_probs") ELSE None]

\* forward(x, m): [status, predict, anti_predict, z, neg_log_probs, z_scores].
\* self.classifier exists only when __init__ took the tagger branch; without the
\* tagger hiddens is None, which the soft classifier multiplies by z.
Forward(slf, batch, net) ==
    LET tagged == IF slf.rationale_tagger
                  THEN Tagger(slf, net)
                  ELSE [z |-> [i \in DOMAIN batch |-> ToFloat(batch[i].m)],
                        neg_log_probs |-> None]
        raised(e) == [status |-> e, predict |-> None, anti_predict |-> None,
                      z |-> None, neg_log_probs |-> None, z_scores |-> None,
                      anti_z |-> None]
    IN  IF slf.lambda_anti # 0 /\ ~slf.rationale_tagger /\ ~slf.rationale_binary
        THEN raised("TypeError")
        ELSE IF "classifier" \notin slf.attrs
        THEN raised("AttributeError")
        ELSE [status        |-> "ok",
              predict       |-> Rows(net, "pred"),
              anti_predict  |-> IF slf.lambda_anti # 0 THEN Rows(net, "anti_pred") ELSE None,
              z             |-> tagged.z,
              neg_log_probs |-> tagged.neg_log_probs,
              z_scores      |-> None,
              anti_z        |-> IF slf.lambda_anti # 0
                                THEN [i \in DOMAIN batch |-> Complement(tagged.z[i])]
                                ELSE None]

----------------------------------------------------------------------------
(* Losses and rewards                                                      *)

\* Cross entropy of one example, abstracted to a positive value that is larger
\* for a wrong argmax.
CELoss(pred, y) == IF pred = y THEN Num(1) ELSE Num(2)

\* _get_classifier_loss: mean cross entropy and the 0/1 correctness per example.
GetClassifierLoss(predict, y) ==
    [loss   |-> MeanSeq([i \in DOMAIN y |-> CELoss(predict[i], y[i])]),
     reward |-> [i \in DOMAIN y |-> IF predict[i] = y[i] THEN 1 ELSE 0]]

\* Mutant of GetGuidanceReward: the row is summed instead of averaged.
GetGuidanceRewardSum(z, ref) == SumSeq(MulRow(z, ToFloat(ref)))

\* _get_guidance_reward on one row: torch.mean(z * ref, dim=1).
GetGuidanceReward(z, ref) == MeanSeq(MulRow(z, ToFloat(ref)))

\* Mutant of Transitions: the last position is compared with the first one.
TransitionsCircular(mask_z) ==
    LET T == Len(mask_z)
        mask_z_shift_left == [t \in 1..T |-> IF t < T THEN mask_z[t + 1] ELSE mask_z[1]]
    IN  SumSeq([t \in 1..T |-> RAbs(RSub(mask_z[t], mask_z_shift_left[t]))])

\* The number of transitions of one masked row: sum |mask_z - mask_z_shift_left|,
\* the last position compared with itself.
Transitions(mask_z) ==
    LET T == Len(mask_z)
        mask_z_shift_left == [t \in 1..T |-> IF t < T THEN mask_z[t + 1] ELSE mask_z[T]]
    IN  SumSeq([t \in 1..T |-> RAbs(RSub(mask_z[t], mask_z_shift_left[t]))])

\* Mutant of GetRegularizationLoss: the signed differences, without torch.abs.
GetRegularizationLossSigned(slf, z, m) ==
    LET mask_z   == IF m # None THEN MulRow(z, ToFloat(m)) ELSE z
        seq_lens == IF m # None THEN SumSeq(ToFloat(m)) ELSE Num(Len(z))
    IN  [loss_continuity |-> RSub(RDiv(Transitions(mask_z), seq_lens),
                                  RDiv(Num(slf.rationale_num * 2), seq_lens)),
         loss_sparsity   |-> RSub(RDiv(SumSeq(mask_z), seq_lens),
                                  RDiv(Num(slf.rationale_len), seq_lens))]

\* _get_regularization_loss on one row; without a mask every position counts.
GetRegularizationLoss(slf, z, m) ==
    LET mask_z   == IF m # None THEN MulRow(z, ToFloat(m)) ELSE z
        seq_lens == IF m # None THEN SumSeq(ToFloat(m)) ELSE Num(Len(z))
        ratio_continuity == RDiv(Transitions(mask_z), seq_lens)
        recommend_c      == RDiv(Num(slf.rationale_num * 2), seq_lens)
        ratio_sparsity   == RDiv(SumSeq(mask_z), seq_lens)
        recommend_s      == RDiv(Num(slf.rationale_len), seq_lens)
    IN  [loss_continuity |-> RAbs(RSub(ratio_continuity, recommend_c)),
         loss_sparsity   |-> RAbs(RSub(ratio_sparsity, recommend_s))]

\* Mutant of DequeAppend: a full deque drops its newest entry instead of its oldest.
DequeAppendDropNewest(h, v) ==
    IF Len(h) >= HistoryMaxLen THEN Append(SubSeq(h, 1, Len(h) - 1), v) ELSE Append(h, v)

\* deque.append under maxlen: a full deque drops its leftmost entry.
DequeAppend(h, v) ==
    IF Len(h) >= HistoryMaxLen THEN Append(Tail(h), v) ELSE Append(h, v)

\* np.mean(self.history_rewards), read at the top of _get_tagger_loss.
HistoryRewardsMean(h) == MeanSeq(h)

\* The combined reward of one example.
CombinedReward(slf, reward_classifier, reward_anti_classifier, reward_s, reward_d, loss_continuity, loss_sparsity) ==
    RAdd(RAdd(RSub(RSub(RSub(Num(reward_classifier),
                             RMul(Num(reward_anti_classifier), Num(slf.lambda_anti))),
                        RMul(loss_continuity, Num(slf.lambda_continuity))),
                   RMul(loss_sparsity, Num(slf.lambda_sparsity))),
              RMul(reward_s, Num(slf.lambda_s))),
         RMul(reward_d, Num(slf.lambda_d)))

\* torch.sum(neg_log_probs * advantages * m) over the batch.
SumTaggerLoss(neg_log_probs, advantages, m) ==
    SumSeq([i \in DOMAIN m |->
        SumSeq([t \in DOMAIN m[i] |->
            RMul(RMul(neg_log_probs[i][t], advantages[i]), Num(m[i][t]))])])

\* Mutant of GetTaggerLoss: the batch mean is appended before the baseline is read.
GetTaggerLossAppendFirst(slf, history, reward_classifier, reward_anti_classifier, reward_s, reward_d, loss_continuity, loss_sparsity, z, neg_log_probs, m) ==
    LET rewards == [i \in DOMAIN m |->
            CombinedReward(slf, reward_classifier[i], reward_anti_classifier[i],
                           reward_s[i], reward_d[i], loss_continuity[i], loss_sparsity[i])]
        appended   == DequeAppend(history, MeanSeq(rewards))
        history_rewards_mean == HistoryRewardsMean(appended)
        advantages == [i \in DOMAIN m |-> RSub(rewards[i], history_rewards_mean)]
    IN  [history_rewards_mean |-> history_rewards_mean,
         rewards              |-> rewards,
         history_rewards      |-> appended,
         advantages           |-> advantages,
         loss_tagger          |-> SumTaggerLoss(neg_log_probs, advantages, m)]

\* _get_tagger_loss: the baseline is read, the rewards are combined and their batch
\* mean is appended to the queue, then the advantages weigh neg_log_probs.
GetTaggerLoss(slf, history, reward_classifier, reward_anti_classifier, reward_s, reward_d, loss_continuity, loss_sparsity, z, neg_log_probs, m) ==
    LET history_rewards_mean == HistoryRewardsMean(history)
        rewards == [i \in DOMAIN m |->
            CombinedReward(slf, reward_classifier[i], reward_anti_classifier[i],
                           reward_s[i], reward_d[i], loss_continuity[i], loss_sparsity[i])]
        appended   == DequeAppend(history, MeanSeq(rewards))
        advantages == [i \in DOMAIN m |-> RSub(rewards[i], history_rewards_mean)]
    IN  [history_rewards_mean |-> history_rewards_mean,
         rewards              |-> rewards,
         history_rewards      |-> appended,
         advantages           |-> advantages,
         loss_tagger          |-> SumTaggerLoss(neg_log_probs, advantages, m)]

----------------------------------------------------------------------------
(* Backpropagation.  Gradients are tracked per parameter set as the set of  *)
(* losses accumulated in .grad.  backward() frees the graph it walks, so a  *)
(* later backward() through a freed part raises RuntimeError.               *)

\* The part of the graph the embedding lookup adds: none when the table is frozen.
EmbedGraph(slf) == IF slf.fine_tuning THEN {"embed"} ELSE {}

\* The graph of the tagger's outputs: the tagger's network over the embeddings.
TaggerGraph(slf) == {"tagger"} \cup EmbedGraph(slf)

\* The graph of a classifier's prediction.  Hard: the encoder over e * z, with z a
\* sample.  Soft: the tagger's hidden states weighted by z, so through the tagger.
ClassifierGraph(slf, params) ==
    {params} \cup (IF ZRequiresGrad(slf) THEN TaggerGraph(slf) ELSE EmbedGraph(slf))

\* The parameter sets (graph parts) a loss walks back through.
LossGraph(slf, loss) ==
    IF loss = "classifier" THEN ClassifierGraph(slf, "classifier")
    ELSE IF loss = "anti_classifier" THEN ClassifierGraph(slf, "anti_classifier")
    ELSE TaggerGraph(slf)

\* Mutant of BuildLosses: the anti classifier's pair is appended before the tagger's.
BuildLossesAntiFirst(slf, loss_classifier, loss_tagger, loss_anti_classifier) ==
    <<[loss |-> "classifier", value |-> loss_classifier, opt |-> "opt_classifier"]>>
    \o (IF slf.lambda_anti # 0
        THEN <<[loss |-> "anti_classifier", value |-> loss_anti_classifier,
                opt |-> "opt_anti_classifier"]>>
        ELSE <<>>)
    \o (IF slf.rationale_tagger /\ slf.rationale_binary
        THEN <<[loss |-> "tagger", value |-> loss_tagger, opt |-> "opt_tagger"]>>
        ELSE <<>>)

\* The (loss, optimizer) pairs of train_one_step, in the order it zips them.
BuildLosses(slf, loss_classifier, loss_tagger, loss_anti_classifier) ==
    <<[loss |-> "classifier", value |-> loss_classifier, opt |-> "opt_classifier"]>>
    \o (IF slf.rationale_tagger /\ slf.rationale_binary
        THEN <<[loss |-> "tagger", value |-> loss_tagger, opt |-> "opt_tagger"]>>
        ELSE <<>>)
    \o (IF slf.lambda_anti # 0
        THEN <<[loss |-> "anti_classifier", value |-> loss_anti_classifier,
                opt |-> "opt_anti_classifier"]>>
        ELSE <<>>)

\* loss.backward(): accumulate into every parameter set of the loss's graph.
Backward(slf, st, item) ==
    LET graph == LossGraph(slf, item.loss)
    IN  IF graph \cap st.freed # {}
        THEN [st EXCEPT !.status = "RuntimeError"]
        ELSE [st EXCEPT !.grad   = [p \in ParamSets |->
                                       IF p \in graph THEN @[p] \cup {item.loss} ELSE @[p]],
                        !.freed  = @ \cup graph,
                        !.events = Append(@, <<"backward", item.loss>>)]

\* opt.step(): update the optimizer's parameter sets from what their .grad holds
\* (applied: per step, the losses whose gradient each updated set held).
OptStep(slf, st, item) ==
    [st EXCEPT !.updated = [p \in ParamSets |->
                               IF p \in slf.opts[item.opt] THEN @[p] + 1 ELSE @[p]],
               !.applied = Append(@, [loss |-> item.loss, opt |-> item.opt,
                                      grads |-> [p \in slf.opts[item.opt] |-> st.grad[p]]]),
               !.events  = Append(@, <<"step", item.opt>>)]

\* Mutant of ZeroGrad: the call is recorded but every .grad is left as it is.
ZeroGradKeepsGrad(slf, st, item) ==
    [st EXCEPT !.events = Append(@, <<"zero_grad", item.opt>>)]

\* opt.zero_grad(): clear .grad of the optimizer's parameter sets.
ZeroGrad(slf, st, item) ==
    [st EXCEPT !.grad   = [p \in ParamSets |->
                              IF p \in slf.opts[item.opt] THEN {} ELSE @[p]],
               !.events = Append(@, <<"zero_grad", item.opt>>)]

\* Mutant of BackpropOne: the loss value is put at the front of loss_val.
BackpropOnePrepend(slf, st, item) ==
    LET b == Backward(slf, st, item)
    IN  IF b.status # "ok" THEN b
        ELSE LET z == ZeroGrad(slf, OptStep(slf, b, item), item)
             IN  [z EXCEPT !.loss_val = <<item.value>> \o @]

\* One iteration of the loop over zip(losses, opts).
BackpropOne(slf, st, item) ==
    LET b == Backward(slf, st, item)
    IN  IF b.status # "ok" THEN b
        ELSE LET z == ZeroGrad(slf, OptStep(slf, b, item), item)
             IN  [z EXCEPT !.loss_val = Append(@, item.value)]

RECURSIVE Backprop(_, _, _)
Backprop(slf, st, todo) ==
    IF todo = <<>> \/ st.status # "ok" THEN st
    ELSE Backprop(slf, BackpropOne(slf, st, Head(todo)), Tail(todo))

----------------------------------------------------------------------------
(* Rationalizer.train_one_step                                             *)

\* The record of an operation that has not computed anything (yet).
NoLocals ==
    [predict |-> None, anti_predict |-> None, z |-> None, anti_z |-> None,
     neg_log_probs |-> None, z_scores |-> None,
     reward_classifier |-> None, reward_anti_classifier |-> None,
     loss_continuity |-> None, loss_sparsity |-> None, reward_s |-> None, reward_d |-> None,
     history_rewards_mean |-> None, rewards |-> None, advantages |-> None,
     loss_classifier |-> None, loss_tagger |-> None, loss_anti_classifier |-> None,
     hidden |-> None, events |-> <<>>, applied |-> <<>>, loss_val |-> None, ret |-> None]

\* The state train_one_step(x, y, m, r, s, d) leaves: the reward queue, the gradients,
\* the update counts and its locals, events and result (or the exception it raised).
TrainOneStepResult(slf, history, g, u, batch, net) ==
    LET idx  == DOMAIN batch
        y    == Rows(batch, "y")
        m    == Rows(batch, "m")
        hard == slf.rationale_tagger /\ slf.rationale_binary
        soft == slf.rationale_tagger /\ ~slf.rationale_binary
        fw   == Forward(slf, batch, net)
        cl   == GetClassifierLoss(fw.predict, y)
        acl  == IF slf.lambda_anti # 0
                THEN GetClassifierLoss(fw.anti_predict, y)
                ELSE [loss |-> Num(0), reward |-> [i \in idx |-> 0]]
        reg  == [i \in idx |-> GetRegularizationLoss(slf, fw.z[i], m[i])]
        reward_s == [i \in idx |->
            IF slf.lambda_s # 0
            THEN GetGuidanceReward(fw.z[i], Binarize(batch[i].s, slf.threshold_s))
            ELSE Num(0)]
        reward_d == [i \in idx |->
            IF slf.lambda_d # 0
            THEN GetGuidanceReward(fw.z[i], AbsRow(batch[i].d))
            ELSE Num(0)]
        tl   == GetTaggerLoss(slf, history, cl.reward, acl.reward, reward_s, reward_d,
                              [i \in idx |-> reg[i].loss_continuity],
                              [i \in idx |-> reg[i].loss_sparsity],
                              fw.z, fw.neg_log_probs, m)
        loss_s == IF slf.lambda_s # 0 THEN RNeg(MeanSeq(reward_s)) ELSE Num(0)
        loss_d == IF slf.lambda_d # 0 THEN RNeg(MeanSeq(reward_d)) ELSE Num(0)
        loss_classifier ==
            IF soft
            THEN RAdd(RAdd(cl.loss, RMul(loss_s, Num(slf.lambda_s))),
                      RMul(loss_d, Num(slf.lambda_d)))
            ELSE cl.loss
        todo == BuildLosses(slf, loss_classifier,
                            IF hard THEN tl.loss_tagger ELSE None, acl.loss)
        bp   == Backprop(slf,
                         [status |-> "ok", grad |-> g, updated |-> u, freed |-> {},
                          events |-> <<>>, applied |-> <<>>, loss_val |-> <<>>],
                         todo)
        base == [NoLocals EXCEPT
                    !.predict = fw.predict, !.anti_predict = fw.anti_predict,
                    !.z = fw.z, !.anti_z = fw.anti_z,
                    !.neg_log_probs = fw.neg_log_probs,
                    !.reward_classifier = cl.reward,
                    !.reward_anti_classifier = acl.reward,
                    !.loss_classifier = loss_classifier,
                    !.loss_anti_classifier = acl.loss,
                    !.reward_s = IF slf.rationale_tagger THEN reward_s ELSE None,
                    !.reward_d = IF slf.rationale_tagger THEN reward_d ELSE None,
                    !.events = bp.events,
                    !.applied = bp.applied,
                    !.loss_val = bp.loss_val,
                    !.ret = IF bp.status = "ok"
                            THEN [loss_val |-> bp.loss_val, predict |-> fw.predict, z |-> fw.z]
                            ELSE None]
        locals == IF hard
                  THEN [base EXCEPT
                           !.loss_continuity = [i \in idx |-> reg[i].loss_continuity],
                           !.loss_sparsity = [i \in idx |-> reg[i].loss_sparsity],
                           !.history_rewards_mean = tl.history_rewards_mean,
                           !.rewards = tl.rewards,
                           !.advantages = tl.advantages,
                           !.loss_tagger = tl.loss_tagger]
                  ELSE base
    IN  IF fw.status # "ok"
        THEN [status |-> fw.status, history_rewards |-> history, grad |-> g,
              updated |-> u, locals |-> NoLocals]
        ELSE IF "opt_classifier" \notin slf.attrs
        THEN [status |-> "AttributeError", history_rewards |-> history, grad |-> g,
              updated |-> u, locals |-> NoLocals]
        ELSE [status          |-> IF bp.status = "ok" THEN "returned" ELSE bp.status,
              history_rewards |-> IF hard THEN tl.history_rewards ELSE history,
              grad            |-> bp.grad,
              updated         |-> bp.updated,
              locals          |-> locals]

\* model.train_one_step(batch): one call, to its return or to the exception it raises.
TrainOneStep(batch, net) ==
    \E r \in {TrainOneStepResult(self, history_rewards, grad, updated, batch, net)} :
        /\ history_rewards' = r.history_rewards
        /\ grad' = r.grad
        /\ updated' = r.updated
        /\ calls' = calls + 1
        /\ last' = [op |-> "train_one_step", status |-> r.status,
                    batch |-> batch, net |-> net, locals |-> r.locals]
        /\ UNCHANGED <<self, trainer>>

\* model.forward(x, m) on its own (evaluation): no state of the model changes.
ForwardCall(batch, net) ==
    \E fw \in {Forward(self, batch, net)} :
        /\ last' = [op |-> "forward",
                    status |-> IF fw.status = "ok" THEN "returned" ELSE fw.status,
                    batch |-> batch, net |-> net,
                    locals |-> [NoLocals EXCEPT
                                   !.predict = fw.predict, !.anti_predict = fw.anti_predict,
                                   !.z = fw.z, !.anti_z = fw.anti_z,
                                   !.neg_log_probs = fw.neg_log_probs]]
        /\ UNCHANGED <<self, history_rewards, grad, updated, calls, trainer>>

----------------------------------------------------------------------------
(* Classifier.forward: pooling of the encoder's hidden states               *)

RECURSIVE MaxSeq(_)
MaxSeq(s) ==
    IF Len(s) = 1 THEN Head(s)
    ELSE LET r == MaxSeq(Tail(s)) IN IF RLess(Head(s), r) THEN r ELSE Head(s)

\* One hidden dimension of one example.  Hard: the maximum over time of
\* hiddens + (1 - m * z) * NEG_INF.  Soft: the sum over time of h * z.
Pool(binary, hiddens, z, m) ==
    IF binary
    THEN MaxSeq([t \in DOMAIN hiddens |->
             RAdd(Num(hiddens[t]),
                  RMul(RSub(Num(1), RMul(Num(m[t]), z[t])), Num(NEG_INF)))])
    ELSE SumSeq([t \in DOMAIN hiddens |-> RMul(Num(hiddens[t]), z[t])])

\* classifier(e, h, z, m) on one example, up to the pooled hidden value.
ClassifierForward(hiddens, z, m) ==
    /\ last.op = "__init__"
    /\ last' = [op |-> "classifier_forward", status |-> "returned",
                batch |-> <<[hiddens |-> hiddens, m |-> m]>>, net |-> <<[z |-> z]>>,
                locals |-> [NoLocals EXCEPT
                               !.hidden = Pool(self.args.rationale_binary, hiddens, z, m)]]
    /\ UNCHANGED <<self, history_rewards, grad, updated, calls, trainer>>

\* _get_regularization_loss(z, m) on one row, called on its own.
RegularizationCall(z, m) ==
    \E reg \in {GetRegularizationLoss(self, z, m)} :
        /\ last.op = "__init__"
        /\ last' = [op |-> "_get_regularization_loss", status |-> "returned",
                    batch |-> <<[m |-> m]>>, net |-> <<[z |-> z]>>,
                    locals |-> [NoLocals EXCEPT
                                   !.loss_continuity = <<reg.loss_continuity>>,
                                   !.loss_sparsity = <<reg.loss_sparsity>>]]
        /\ UNCHANGED <<self, history_rewards, grad, updated, calls, trainer>>

----------------------------------------------------------------------------
(* runner/trainer.py: train(model, data, args)                              *)

\* def train_one_step(self, x, y, m, r, s, d) and its return statement.
TrainOneStepParams == <<"x", "y", "m", "r", "s", "d">>

TrainOneStepReturns == <<"loss_val", "predict", "z">>

\* model.train_one_step(batch_x_, batch_y_, batch_m_) in train, and the names it
\* unpacks the result into.
TrainerPasses == <<"batch_x_", "batch_y_", "batch_m_">>

TrainerUnpacks ==
    <<"losses", "predict", "anti_predict", "z", "z_rewards", "continuity_loss",
      "sparsity_loss">>

\* The model class run.py hands to train: its train_one_step takes what train
\* passes and returns what train unpacks.
ThreePlayerInterface ==
    [params |-> <<"x", "y", "m">>,
     returns |-> <<"losses", "predict", "anti_predict", "z", "z_rewards",
                   "continuity_loss", "sparsity_loss">>]

\* The train_one_step signature of a model class.
ModelInterface(model) ==
    IF model = "Rationalizer"
    THEN [params |-> TrainOneStepParams, returns |-> TrainOneStepReturns]
    ELSE ThreePlayerInterface

\* Lines 50-53 of train: the call with three positional arguments, then the
\* unpacking of its result into seven names.
CallTrainOneStep(model) ==
    IF Len(TrainerPasses) # Len(ModelInterface(model).params) THEN "TypeError"
    ELSE IF Len(TrainerUnpacks) # Len(ModelInterface(model).returns) THEN "ValueError"
    ELSE "ok"

\* Metrics are <<accuracy, anti-accuracy, sparsity, continuity>>.
ZeroMetrics == <<Num(0), Num(0), Num(0), Num(0)>>

AddMetrics(a, b) == [k \in 1..4 |-> RAdd(a[k], b[k])]

\* No train loop is running.
NoTrainer ==
    [model |-> "none", status |-> "none", num_iteration |-> 0, eval_iteration |-> 0,
     i |-> 0, tmp |-> ZeroMetrics, train |-> <<>>, dev |-> <<>>, test |-> <<>>,
     log |-> <<>>]

\* train up to its loop: empty records and zero accumulators.
StartTrainer(model, num_iteration, eval_iteration) ==
    [NoTrainer EXCEPT !.model = model, !.status = "running",
                      !.num_iteration = num_iteration,
                      !.eval_iteration = eval_iteration]

\* One iteration of train's loop at index t.i: the training step, the metrics of
\* the batch added to the accumulators and, at an evaluation point, the dev and
\* test evaluations, the train records and the reset of the accumulators.
TrainerStep(t, metrics, dev, test) ==
    LET tmp  == AddMetrics(t.tmp, metrics)
        eval == t.eval_iteration # 0 /\ t.i % t.eval_iteration = 0
    IN  IF CallTrainOneStep(t.model) # "ok"
        THEN [t EXCEPT !.status = CallTrainOneStep(t.model)]
        ELSE [t EXCEPT
                 !.i     = @ + 1,
                 !.log   = Append(@, metrics),
                 !.dev   = IF eval THEN Append(@, dev) ELSE @,
                 !.test  = IF eval THEN Append(@, test) ELSE @,
                 !.train = IF eval
                           THEN Append(@, [k \in 1..4 |->
                                               RDiv(tmp[k], Num(t.eval_iteration))])
                           ELSE @,
                 !.tmp   = IF eval THEN ZeroMetrics ELSE tmp]

\* An iteration of the loop for i in range(args.num_iteration + 1).
TrainIteration(metrics, dev, test) ==
    /\ trainer.status = "running"
    /\ trainer.i <= trainer.num_iteration
    /\ trainer' = TrainerStep(trainer, metrics, dev, test)
    /\ calls' = IF CallTrainOneStep(trainer.model) = "ok" THEN calls + 1 ELSE calls
    /\ UNCHANGED <<self, history_rewards, grad, updated, last>>

\* The loop is over: train saves and returns its records.
TrainReturn ==
    /\ trainer.status = "running"
    /\ trainer.i > trainer.num_iteration
    /\ trainer' = [trainer EXCEPT !.status = "returned"]
    /\ UNCHANGED <<self, history_rewards, grad, updated, calls, last>>

----------------------------------------------------------------------------
(* Configurations and inputs                                               *)

Labels == {0, 1}

\* Constructor arguments: every toggle, weights of 1 (lambda_anti also 0), a
\* threshold of 1 and the given rationale targets.
ArgsSpace(lens, nums) ==
    {a \in [rationale_tagger: BOOLEAN, rationale_binary: BOOLEAN,
            anti_predictor: BOOLEAN, lambda_anti: {0, 1}, fine_tuning: BOOLEAN,
            importance_score: BOOLEAN, lambda_s: {1}, threshold_s: {1},
            domain_knowledge: BOOLEAN, lambda_d: {1},
            rationale_regulation: BOOLEAN, lambda_sparsity: {1}, lambda_continuity: {1},
            rationale_len: lens, rationale_num: nums] :
        a.anti_predictor \/ a.lambda_anti = 1}

\* Masks of a padded row: the first n positions are tokens.
MaskRows(T) == {[t \in 1..T |-> IF t <= n THEN 1 ELSE 0] : n \in 0..T}

HardZ(T) == [1..T -> {Num(0), Num(1)}]

SoftZ(T) == [1..T -> {Rat(1, 2), Num(1)}]

ScoreRows(T) == [1..T -> {0, 2}]

KnowledgeRows(T) == [1..T -> {-1, 0, 1}]

NlpRows(T) == {[t \in 1..T |-> Num(1)], [t \in 1..T |-> Num(t)]}

ZeroRow(T) == [t \in 1..T |-> 0]

\* Every example of length T the model slf reads differently, and every outcome of
\* its networks on it: a tensor the configuration never reads is held fixed.
Examples(slf, T) ==
    [y: {1}, m: MaskRows(T),
     s: IF slf.lambda_s # 0 THEN ScoreRows(T) ELSE {ZeroRow(T)},
     d: IF slf.lambda_d # 0 THEN KnowledgeRows(T) ELSE {ZeroRow(T)}]

Outcomes(slf, T) ==
    [z: IF slf.rationale_binary THEN HardZ(T) ELSE SoftZ(T),
     neg_log_probs: IF slf.rationale_binary THEN NlpRows(T) ELSE {ToFloat(ZeroRow(T))},
     pred: Labels,
     anti_pred: IF slf.lambda_anti # 0 THEN Labels ELSE {0}]

\* A few examples and outcomes, for the specifications that explore configurations
\* and call sequences rather than tensors.
FewExamples(T) ==
    [y: {1}, m: {[t \in 1..T |-> 1], [t \in 1..T |-> IF t < T THEN 1 ELSE 0]},
     s: {[t \in 1..T |-> IF t = 1 THEN 2 ELSE 0]},
     d: {[t \in 1..T |-> IF t = 1 THEN -1 ELSE 0]}]

FewOutcomes(slf, T) ==
    [z: IF slf.rationale_binary
        THEN {[t \in 1..T |-> IF t = 1 THEN Num(1) ELSE Num(0)]}
        ELSE {[t \in 1..T |-> Rat(1, 2)]},
     neg_log_probs: {[t \in 1..T |-> Num(t)]},
     pred: Labels, anti_pred: {0}]

\* One-example batches, and two-example batches whose networks agree on both.
FewInputs(slf, T) ==
    {<<(<<e>>), (<<o>>)>> : e \in FewExamples(T), o \in FewOutcomes(slf, T)}
    \cup {<<(<<e1, e2>>), (<<o, o>>)>> :
             e1 \in FewExamples(T), e2 \in FewExamples(T), o \in FewOutcomes(slf, T)}

RichInputs(slf, T) ==
    {<<(<<e>>), (<<o>>)>> : e \in Examples(slf, T), o \in Outcomes(slf, T)}

\* The state after Rationalizer(embeddings, args), with the inputs of the call to
\* come (None: the calls draw their own).
InitState(args, pending) ==
    /\ self = Rationalizer(args)
    /\ history_rewards = InitHistory(args)
    /\ grad = [p \in ParamSets |-> {}]
    /\ updated = [p \in ParamSets |-> 0]
    /\ calls = 0
    /\ last = [op |-> "__init__", status |-> "returned",
               batch |-> pending[1], net |-> pending[2], locals |-> NoLocals]
    /\ trainer = NoTrainer

InitWith(argset) == \E args \in argset : InitState(args, <<None, None>>)

----------------------------------------------------------------------------
(* Spec: every configuration, a few batches, MaxCalls training steps.      *)

Init == InitWith(ArgsSpace({1}, {1}))

Train ==
    /\ calls < MaxCalls
    /\ \E i \in FewInputs(self, SeqLen) : TrainOneStep(i[1], i[2])

Next == Train

Spec == Init /\ [][Next]_vars

----------------------------------------------------------------------------
(* SpecForward: every configuration, forward on a few batches.              *)

Eval == \E i \in FewInputs(self, SeqLen) : ForwardCall(i[1], i[2])

NextForward == Eval

SpecForward == Init /\ [][NextForward]_vars

----------------------------------------------------------------------------
(* SpecLoss: models with a tagger, a frozen embedding table and no anti     *)
(* classifier, one training step on every one-example batch and outcome.    *)

InitLoss ==
    InitWith({a \in ArgsSpace({1}, {1}) :
                 a.rationale_tagger /\ ~a.fine_tuning /\ ~a.anti_predictor})

TrainRich ==
    /\ calls < 1
    /\ \E i \in RichInputs(self, SeqLen) : TrainOneStep(i[1], i[2])

NextLoss == TrainRich

SpecLoss == InitLoss /\ [][NextLoss]_vars

----------------------------------------------------------------------------
(* SpecHistory: hard-rationale models trained past the reward queue's       *)
(* capacity.  The first VarySteps steps see any of a few batch outcomes,    *)
(* the later ones the same batch.                                           *)

InitHistorySpec ==
    InitWith({a \in ArgsSpace({1}, {1}) :
                 /\ a.rationale_tagger /\ a.rationale_binary /\ ~a.fine_tuning
                 /\ a.rationale_regulation /\ a.anti_predictor /\ a.lambda_anti = 1
                 /\ ~a.importance_score /\ ~a.domain_knowledge})

\* The batches of the early steps: two examples, the first unpadded, with three
\* different batch-mean rewards.
HistoryInputs(slf, T) ==
    {i \in FewInputs(slf, T) :
        /\ Len(i[1]) = 2
        /\ i[1][1].m = [t \in 1..T |-> 1]
        /\ (i[1][2].m = [t \in 1..T |-> 1] \/ i[2][1].pred = 1)}

\* The batch every late step sees: two unpadded examples, predicted right.
SteadyInputs(slf, T) ==
    {i \in HistoryInputs(slf, T) :
        i[2][1].pred = 1 /\ i[1][2].m = [t \in 1..T |-> 1]}

TrainLong ==
    /\ calls < MaxHistoryCalls
    /\ \E i \in (IF calls < VarySteps
                 THEN HistoryInputs(self, SeqLen) ELSE SteadyInputs(self, SeqLen)) :
           TrainOneStep(i[1], i[2])

NextHistory == TrainLong

SpecHistory == InitHistorySpec /\ [][NextHistory]_vars

----------------------------------------------------------------------------
(* SpecPool: Classifier.forward's pooling on every small input.             *)

\* Hidden values of the encoder, among them one more than |NEG_INF| above the rest.
HiddenVals == {-3, 0, 5, 2000000}

PoolInputs(slf) ==
    {<<(<<[hiddens |-> h, m |-> m]>>), (<<[z |-> z]>>)>> :
        h \in [1..PoolSeqLen -> HiddenVals], m \in MaskRows(PoolSeqLen),
        z \in (IF slf.rationale_binary THEN HardZ(PoolSeqLen) ELSE SoftZ(PoolSeqLen))}

InitPool ==
    \E args \in {a \in ArgsSpace({1}, {1}) :
                    /\ a.rationale_tagger /\ ~a.fine_tuning /\ ~a.anti_predictor
                    /\ ~a.importance_score /\ ~a.domain_knowledge
                    /\ ~a.rationale_regulation} :
        \E i \in PoolInputs(Rationalizer(args)) : InitState(args, i)

Classify == ClassifierForward(last.batch[1].hiddens, last.net[1].z, last.batch[1].m)

NextPool == Classify

SpecPool == InitPool /\ [][NextPool]_vars

----------------------------------------------------------------------------
(* SpecReg: _get_regularization_loss on every binary row of RegSeqLen        *)
(* positions, for several rationale targets.                                *)

RegInputs(slf) ==
    {<<(<<[m |-> m]>>), (<<[z |-> z]>>)>> :
        m \in MaskRows(RegSeqLen) \cup {None}, z \in HardZ(RegSeqLen)}

InitReg ==
    \E args \in {a \in ArgsSpace(0..2, 0..1) :
                    /\ a.rationale_tagger /\ a.rationale_binary /\ ~a.fine_tuning
                    /\ ~a.anti_predictor /\ ~a.importance_score /\ ~a.domain_knowledge} :
        \E i \in RegInputs(Rationalizer(args)) : InitState(args, i)

Regularize == RegularizationCall(last.net[1].z, last.batch[1].m)

NextReg == Regularize

SpecReg == InitReg /\ [][NextReg]_vars

----------------------------------------------------------------------------
(* Properties                                                               *)

Min(a, b) == IF a < b THEN a ELSE b

\* The step from the current state is a train_one_step call.
TrainStep == calls' = calls + 1 /\ last'.op = "train_one_step"

HardModel == self.rationale_tagger /\ self.rationale_binary

SoftModel == self.rationale_tagger /\ ~self.rationale_binary

\* The last operation is a train_one_step call that returned.
Returned == last.op = "train_one_step" /\ last.status = "returned"

\* The last operation is a train_one_step call that got past forward.
Computed == last.op = "train_one_step" /\ last.locals.predict # None

\* C1: the reward history of a hard-rationale model starts as <<0>>; after N calls
\* of train_one_step it holds min(N + 1, 200) entries; every call appends the batch
\* mean of its combined rewards at the tail, and at 200 entries the append drops
\* the oldest entry and no other.
C1_RewardHistory ==
    /\ history_rewards = <<Num(0)>>
    /\ [](Len(history_rewards) = Min(calls + 1, 200))
    /\ [][TrainStep =>
            LET v == MeanSeq(last'.locals.rewards)
            IN  history_rewards' =
                    IF Len(history_rewards) < 200
                    THEN history_rewards \o <<v>>
                    ELSE SubSeq(history_rewards, 2, 200) \o <<v>>]_vars

\* C1 witness: past capacity, the initial 0 and the first rewards are gone and the
\* queue starts with a later, non-zero reward.
C1_Witness ==
    /\ calls = 202
    /\ Len(history_rewards) = 200
    /\ history_rewards[1] # Num(0)
    /\ history_rewards[200] = MeanSeq(last.locals.rewards)

\* C2 (as claimed): the baseline of a hard-mode step is the mean of the history
\* that already holds this step's own batch-mean reward.
C2_BaselineIncludesOwnReward ==
    [][TrainStep => last'.locals.history_rewards_mean = MeanSeq(history_rewards')]_vars

\* C2 (amended): the baseline of a hard-mode step is the mean of the history as it
\* was before the step, without this step's batch-mean reward, which is appended
\* after the baseline is read; the advantages are the rewards minus that baseline.
C2_BaselineExcludesOwnReward ==
    [][TrainStep =>
        /\ last'.locals.history_rewards_mean = MeanSeq(history_rewards)
        /\ \A i \in DOMAIN last'.batch :
               last'.locals.advantages[i]
                   = RSub(last'.locals.rewards[i], MeanSeq(history_rewards))]_vars

\* C2 witness: a later step whose baseline is not zero and differs from the mean of
\* the history that holds its own reward.
C2_Witness ==
    /\ last.op = "train_one_step" /\ calls >= 2
    /\ last.locals.history_rewards_mean # Num(0)
    /\ last.locals.history_rewards_mean # MeanSeq(history_rewards)

\* backward, step, zero_grad of one loss and its optimizer.
Triple(loss, opt) == <<(<<"backward", loss>>), (<<"step", opt>>), (<<"zero_grad", opt>>)>>

\* The triples of the active losses in the order classifier, tagger, anti classifier.
ActiveTriples ==
    Triple("classifier", "opt_classifier")
    \o (IF HardModel THEN Triple("tagger", "opt_tagger") ELSE <<>>)
    \o (IF self.lambda_anti # 0
        THEN Triple("anti_classifier", "opt_anti_classifier") ELSE <<>>)

\* C3: a train_one_step call that completes has run, for each active loss and in
\* the order classifier, tagger (hard mode with a tagger), anti classifier (when
\* active), exactly backward, its optimizer's step and that optimizer's zero_grad,
\* one triple after the other, and nothing for an inactive loss.
C3_UpdateOrder == Returned => last.locals.events = ActiveTriples

\* C3 witness: a completed call with all three losses active.
C3_Witness ==
    /\ Returned /\ HardModel /\ self.lambda_anti # 0
    /\ Len(last.locals.events) = 9

----------------------------------------------------------------------------
(* C4: a model built without a tagger                                       *)

\* C4: on a model constructed with the tagger disabled, forward(x, m) completes
\* and returns z equal to the mask m, no neg_log_probs and a classifier
\* prediction, and train_one_step completes having run exactly the classifier
\* loss's backward, step and zero_grad.
C4_TaggerDisabledPassThrough ==
    (~self.rationale_tagger /\ last.op \in {"forward", "train_one_step"}) =>
        /\ last.status = "returned"
        /\ last.locals.predict # None
        /\ last.locals.neg_log_probs = None
        /\ \A i \in DOMAIN last.batch : last.locals.z[i] = ToFloat(last.batch[i].m)
        /\ last.op = "train_one_step" =>
               last.locals.events = Triple("classifier", "opt_classifier")

----------------------------------------------------------------------------
(* C5: a mask that sums to zero                                             *)

\* C5: when the mask of an example sums to zero, _get_regularization_loss either
\* rejects the input or returns a continuity loss and a sparsity loss that are
\* both defined (neither NaN nor infinite).
C5_ZeroLengthGuarded ==
    (/\ last.op = "_get_regularization_loss"
     /\ last.batch[1].m # None
     /\ \A t \in DOMAIN last.batch[1].m : last.batch[1].m[t] = 0) =>
        \/ last.status # "returned"
        \/ /\ IsFinite(last.locals.loss_continuity[1])
           /\ IsFinite(last.locals.loss_sparsity[1])

----------------------------------------------------------------------------
(* C6: padding positions                                                    *)

\* Two one-example inputs with the same label, mask, predictions and
\* neg_log_probs whose z, importance scores and domain knowledge agree wherever
\* the mask is 1.
AgreeUnmasked(b1, n1, b2, n2) ==
    /\ b1[1].y = b2[1].y /\ b1[1].m = b2[1].m
    /\ n1[1].pred = n2[1].pred /\ n1[1].anti_pred = n2[1].anti_pred
    /\ n1[1].neg_log_probs = n2[1].neg_log_probs
    /\ \A t \in DOMAIN b1[1].m :
           b1[1].m[t] = 1 =>
               /\ n1[1].z[t] = n2[1].z[t]
               /\ b1[1].s[t] = b2[1].s[t]
               /\ b1[1].d[t] = b2[1].d[t]

\* C6: a hard-mode train_one_step on an example with at least one token computes
\* the same continuity loss, sparsity loss, importance-score reward,
\* domain-knowledge reward, combined reward and tagger loss as the same step on
\* any input that differs from it only at positions where the mask is 0.
C6_PaddingIgnored ==
    (/\ last.op = "train_one_step" /\ calls = 1 /\ HardModel /\ Computed
     /\ Len(last.batch) = 1
     /\ \E t \in DOMAIN last.batch[1].m : last.batch[1].m[t] = 1) =>
        \A i \in RichInputs(self, SeqLen) :
            AgreeUnmasked(last.batch, last.net, i[1], i[2]) =>
                \E r \in {TrainOneStepResult(self, InitHistory(self.args),
                                             [p \in ParamSets |-> {}],
                                             [p \in ParamSets |-> 0], i[1], i[2])} :
                    /\ r.locals.loss_continuity = last.locals.loss_continuity
                    /\ r.locals.loss_sparsity = last.locals.loss_sparsity
                    /\ r.locals.reward_s = last.locals.reward_s
                    /\ r.locals.reward_d = last.locals.reward_d
                    /\ r.locals.rewards = last.locals.rewards
                    /\ r.locals.loss_tagger = last.locals.loss_tagger

----------------------------------------------------------------------------
(* C7: hard pooling                                                         *)

\* The positions the last classifier call selects: mask * z = 1.
PoolSelected ==
    {t \in DOMAIN last.batch[1].hiddens :
        last.batch[1].m[t] = 1 /\ last.net[1].z[t] = Num(1)}

\* C7: in hard mode, on an example with at least one position where mask * z = 1,
\* the pooled value is the maximum of the encoder's output over exactly those
\* positions, whatever the values at the other positions.
C7_HardPoolIsMaxOverSelected ==
    (/\ last.op = "classifier_forward" /\ self.args.rationale_binary
     /\ PoolSelected # {}) =>
        \E t \in PoolSelected :
            /\ last.locals.hidden = Num(last.batch[1].hiddens[t])
            /\ \A u \in PoolSelected : last.batch[1].hiddens[u] <= last.batch[1].hiddens[t]

----------------------------------------------------------------------------
(* C8: the regularization losses                                            *)

\* The lengths of a masked row: tokens, selected tokens, and changes of the
\* selection between neighbouring positions (a rationale has a start and an end).
CountTokens(m) == Cardinality({t \in DOMAIN m : m[t] = 1})

CountSelected(z, m) == Cardinality({t \in DOMAIN m : m[t] = 1 /\ z[t] = Num(1)})

CountTransitions(z, m) ==
    Cardinality({t \in 1..(Len(m) - 1) :
        (m[t] = 1 /\ z[t] = Num(1)) # (m[t + 1] = 1 /\ z[t + 1] = Num(1))})

\* The rows of the last _get_regularization_loss call.
RegCalled ==
    /\ last.op = "_get_regularization_loss"
    /\ last.batch[1].m # None
    /\ CountTokens(last.batch[1].m) > 0

\* C8: for a binary z and a mask of non-zero length, the sparsity loss is zero
\* exactly when the number of selected unmasked positions is the configured
\* rationale length, the continuity loss is zero exactly when the number of
\* transitions of the masked z is twice the configured rationale count, each loss
\* is strictly positive otherwise, and two selections under the same mask that
\* miss a target by the same amount, above or below, get the same loss.
C8_RegularizationLoss ==
    RegCalled =>
        LET m  == last.batch[1].m
            z  == last.net[1].z
            ls == last.locals.loss_sparsity[1]
            lc == last.locals.loss_continuity[1]
        IN  /\ IsFinite(ls) /\ IsFinite(lc)
            /\ (ls = Num(0)) <=> (CountSelected(z, m) = self.rationale_len)
            /\ (lc = Num(0)) <=> (CountTransitions(z, m) = 2 * self.rationale_num)
            /\ ls # Num(0) => RLess(Num(0), ls)
            /\ lc # Num(0) => RLess(Num(0), lc)
            /\ \A z2 \in HardZ(RegSeqLen) :
                   \E r \in {GetRegularizationLoss(self, z2, m)} :
                       /\ CountSelected(z2, m) - self.rationale_len
                              = self.rationale_len - CountSelected(z, m)
                          => r.loss_sparsity = ls
                       /\ CountTransitions(z2, m) - 2 * self.rationale_num
                              = 2 * self.rationale_num - CountTransitions(z, m)
                          => r.loss_continuity = lc

\* C8 witness: a row that misses both targets from below, under a mask where
\* other selections miss them by as much from above.
C8_Witness ==
    /\ RegCalled
    /\ CountSelected(last.net[1].z, last.batch[1].m) < self.rationale_len
    /\ CountTransitions(last.net[1].z, last.batch[1].m) < 2 * self.rationale_num
    /\ \E z2 \in HardZ(RegSeqLen) :
           /\ CountSelected(z2, last.batch[1].m) - self.rationale_len
                  = self.rationale_len - CountSelected(last.net[1].z, last.batch[1].m)
    /\ \E z3 \in HardZ(RegSeqLen) :
           /\ CountTransitions(z3, last.batch[1].m) - 2 * self.rationale_num
                  = 2 * self.rationale_num - CountTransitions(last.net[1].z, last.batch[1].m)
    /\ RLess(Num(0), last.locals.loss_sparsity[1])
    /\ RLess(Num(0), last.locals.loss_continuity[1])

----------------------------------------------------------------------------
(* C9: the sign of the domain knowledge                                     *)

\* The batch of the last call with every domain-knowledge entry negated.
NegatedKnowledge ==
    [i \in DOMAIN last.batch |->
        [last.batch[i] EXCEPT !.d = [t \in DOMAIN @ |-> 0 - @[t]]]]

\* C9: with domain-knowledge guidance enabled, train_one_step computes for a batch
\* and for the same batch with d negated the same domain-knowledge reward, and with
\* it the same combined rewards (hard mode) and the same classifier loss, which
\* carries the domain-knowledge penalty (soft mode).
C9_KnowledgeSignIgnored ==
    (/\ last.op = "train_one_step" /\ calls = 1 /\ Computed
     /\ self.lambda_d # 0) =>
        \E r \in {TrainOneStepResult(self, InitHistory(self.args),
                                     [p \in ParamSets |-> {}], [p \in ParamSets |-> 0],
                                     NegatedKnowledge, last.net)} :
            /\ r.locals.reward_d = last.locals.reward_d
            /\ r.locals.rewards = last.locals.rewards
            /\ r.locals.loss_classifier = last.locals.loss_classifier

\* C9 witness: a hard-mode step whose domain knowledge has a -1 at a selected
\* position, which earns a non-zero reward.
C9_Witness ==
    /\ last.op = "train_one_step" /\ calls = 1 /\ Computed /\ HardModel
    /\ self.lambda_d # 0
    /\ \E t \in DOMAIN last.batch[1].d :
           last.batch[1].d[t] = -1 /\ last.net[1].z[t] = Num(1)
    /\ NegatedKnowledge # last.batch
    /\ last.locals.reward_d[1] # Num(0)

----------------------------------------------------------------------------
(* C10: gradients after the updates                                         *)

\* C10: when train_one_step returns, the accumulated gradient of every parameter
\* set (embedding table, tagger, classifier, anti classifier) is zero, and every
\* optimizer step of the call, returned or not, updated its parameter sets from
\* the gradient of its own loss alone.
C10_GradientsZeroed ==
    last.op = "train_one_step" =>
        /\ Returned => \A p \in ParamSets : grad[p] = {}
        /\ \A k \in DOMAIN last.locals.applied :
               \A p \in DOMAIN last.locals.applied[k].grads :
                   last.locals.applied[k].grads[p] \subseteq {last.locals.applied[k].loss}

\* C10 witness: a second call returns on a soft-rationale model that fine-tunes
\* its embedding table, so the table, the tagger and the classifier have all
\* received gradient and been updated twice.
C10_Witness ==
    /\ Returned /\ calls = 2 /\ SoftModel /\ self.fine_tuning
    /\ updated["embed"] = 2 /\ updated["tagger"] = 2 /\ updated["classifier"] = 2
    /\ last.locals.applied[1].grads["embed"] = {"classifier"}
    /\ \A p \in ParamSets : grad[p] = {}

----------------------------------------------------------------------------
(* C11: the anti classifier                                                 *)

\* Whether the anti classifier's backward, step and zero_grad appear, in this order
\* and next to each other, among the events of the last call.
AntiTripleRan ==
    \E k \in 1..(Len(last.locals.events) - 2) :
        SubSeq(last.locals.events, k, k + 2)
            = Triple("anti_classifier", "opt_anti_classifier")

\* C11: on a model with a tagger, when the anti-classifier flag is set at
\* construction, whatever the anti weight, forward and train_one_step complete
\* with an anti prediction made on 1 - z, and train_one_step runs the anti
\* classifier's loss through its own optimizer, which holds the anti classifier's
\* parameters only; when the flag is not set there is no anti prediction and no
\* anti-classifier update.
C11_AntiClassifierFollowsFlag ==
    (self.rationale_tagger /\ last.op \in {"forward", "train_one_step"}) =>
        IF self.args.anti_predictor
        THEN /\ last.status = "returned"
             /\ last.locals.anti_predict # None
             /\ \A i \in DOMAIN last.batch :
                    last.locals.anti_z[i] = Complement(last.locals.z[i])
             /\ last.op = "train_one_step" =>
                    /\ AntiTripleRan
                    /\ self.opts["opt_anti_classifier"] = {"anti_classifier"}
                    /\ updated["anti_classifier"] > 0
        ELSE /\ last.locals.anti_predict = None
             /\ updated["anti_classifier"] = 0
             /\ \A k \in DOMAIN last.locals.events :
                    last.locals.events[k][2] \notin {"anti_classifier", "opt_anti_classifier"}

----------------------------------------------------------------------------
(* C12: the combined reward                                                 *)

\* The combined reward of example i of the last call as the formula gives it from
\* the recorded components, a component whose toggle is off left out.
FormulaReward(i) ==
    LET a  == self.args
        l  == last.locals
        r0 == Num(l.reward_classifier[i])
        r1 == IF a.anti_predictor
              THEN RSub(r0, RMul(Num(a.lambda_anti), Num(l.reward_anti_classifier[i])))
              ELSE r0
        r2 == IF a.rationale_regulation
              THEN RSub(RSub(r1, RMul(Num(a.lambda_continuity), l.loss_continuity[i])),
                        RMul(Num(a.lambda_sparsity), l.loss_sparsity[i]))
              ELSE r1
        r3 == IF a.importance_score
              THEN RAdd(r2, RMul(Num(a.lambda_s), l.reward_s[i]))
              ELSE r2
    IN  IF a.domain_knowledge
        THEN RAdd(r3, RMul(Num(a.lambda_d), l.reward_d[i]))
        ELSE r3

\* C12: in hard mode the combined reward of every example is reward_classifier
\* - lambda_anti * reward_anti_classifier - lambda_continuity * loss_continuity
\* - lambda_sparsity * loss_sparsity + lambda_s * reward_s + lambda_d * reward_d,
\* a component whose toggle is off contributing exactly zero, so that with every
\* toggle off it is the 0/1 correctness of the prediction.
C12_CombinedReward ==
    (last.op = "train_one_step" /\ HardModel /\ Computed) =>
        \A i \in DOMAIN last.batch :
            /\ last.locals.rewards[i] = FormulaReward(i)
            /\ (/\ ~self.args.anti_predictor /\ ~self.args.rationale_regulation
                /\ ~self.args.importance_score /\ ~self.args.domain_knowledge) =>
                   last.locals.rewards[i]
                       = Num(IF last.locals.predict[i] = last.batch[i].y THEN 1 ELSE 0)

----------------------------------------------------------------------------
(* C13: soft rationales                                                     *)

\* The batch mean, over the last call's batch, of the share of the row's positions
\* that z weighs and the reference marks: marks[i][t] says whether the reference
\* marks position t of example i.
BatchMeanGuidance(marks) ==
    MeanSeq([i \in DOMAIN last.batch |->
        RDiv(SumSeq([t \in DOMAIN last.locals.z[i] |->
                 IF marks[i][t] THEN last.locals.z[i][t] ELSE Num(0)]),
             Num(Len(last.locals.z[i])))])

ScoreMarks ==
    [i \in DOMAIN last.batch |->
        [t \in DOMAIN last.batch[i].s |-> last.batch[i].s[t] >= self.args.threshold_s]]

KnowledgeMarks ==
    [i \in DOMAIN last.batch |->
        [t \in DOMAIN last.batch[i].d |-> last.batch[i].d[t] # 0]]

\* The classifier loss of a soft-rationale step as the formula gives it.
SoftFormulaLoss ==
    LET ce == MeanSeq([i \in DOMAIN last.batch |->
                  CELoss(last.locals.predict[i], last.batch[i].y)])
        ls == IF self.args.importance_score
              THEN RMul(Num(self.args.lambda_s), BatchMeanGuidance(ScoreMarks))
              ELSE Num(0)
        ld == IF self.args.domain_knowledge
              THEN RMul(Num(self.args.lambda_d), BatchMeanGuidance(KnowledgeMarks))
              ELSE Num(0)
    IN  RSub(RSub(ce, ls), ld)

\* C13: a soft-rationale train_one_step computes no tagger loss, rewards or
\* advantages, runs nothing on a tagger optimizer and leaves the reward history as
\* construction left it; the loss it backpropagates first, and reports first, is
\* the mean cross entropy minus lambda_s times the batch-mean importance-score
\* reward minus lambda_d times the batch-mean domain-knowledge reward, a guidance
\* term being zero when its toggle is off.
C13_SoftModeLoss ==
    (last.op = "train_one_step" /\ SoftModel /\ Computed) =>
        /\ last.locals.loss_tagger = None
        /\ last.locals.rewards = None /\ last.locals.advantages = None
        /\ \A k \in DOMAIN last.locals.events :
               last.locals.events[k][2] \notin {"tagger", "opt_tagger"}
        /\ history_rewards = InitHistory(self.args)
        /\ last.locals.loss_classifier = SoftFormulaLoss
        /\ last.locals.events[1] = <<"backward", "classifier">>
        /\ last.locals.loss_val[1] = SoftFormulaLoss

\* C13 witness: a soft-rationale step returns with both guidance terms enabled and
\* non-zero, so the loss is below the cross entropy.
C13_Witness ==
    /\ Returned /\ SoftModel
    /\ self.args.importance_score /\ self.args.domain_knowledge
    /\ BatchMeanGuidance(ScoreMarks) # Num(0)
    /\ BatchMeanGuidance(KnowledgeMarks) # Num(0)
    /\ BatchMeanGuidance(ScoreMarks) # BatchMeanGuidance(KnowledgeMarks)
    /\ last.locals.loss_val[1] = SoftFormulaLoss

----------------------------------------------------------------------------
(* C14: what train_one_step returns                                         *)

\* Whether the tagger's loss and the anti classifier's loss are trained.
TaggerLossActive == HardModel

AntiLossActive == self.lambda_anti # 0

\* The returned prediction and selection have the batch's shape.
ReturnedShapes ==
    /\ Len(last.locals.ret.predict) = Len(last.batch)
    /\ Len(last.locals.ret.z) = Len(last.batch)
    /\ \A i \in DOMAIN last.batch :
           Len(last.locals.ret.z[i]) = Len(last.batch[i].m)

----------------------------------------------------------------------------
(* C15: transitions and rationale spans                                     *)

\* The masked selection of the last _get_regularization_loss call: the positions
\* that are selected and, when a mask is given, unmasked.
RegSelected ==
    {t \in DOMAIN last.net[1].z :
        /\ last.net[1].z[t] = Num(1)
        /\ (last.batch[1].m # None => last.batch[1].m[t] = 1)}

RegRowLen == Len(last.net[1].z)

\* The number of maximal runs of selected positions (rationale spans).
RegRuns == Cardinality({t \in RegSelected : t - 1 \notin RegSelected})

\* The masked row the regularizer counts on.
RegMaskedZ ==
    IF last.batch[1].m # None
    THEN MulRow(last.net[1].z, ToFloat(last.batch[1].m))
    ELSE last.net[1].z

----------------------------------------------------------------------------
(* SpecTrainer: train(model, data, args) on a hard-rationale Rationalizer   *)
(* and on the model class run.py builds, for every evaluation interval.     *)

\* Per-batch metrics of a training step, and results of evaluate on a split.
MetricOutcomes ==
    {<<Num(1), Num(0), Rat(1, 2), Num(1)>>, <<Num(0), Num(1), Num(1), Rat(1, 4)>>}

EvalOutcomes ==
    {<<Num(1), Num(1), Rat(1, 2), Rat(1, 2)>>, <<Num(0), Num(0), Num(1), Num(0)>>}

TrainerModels == {"Rationalizer", "Rationale3PlayerClassification"}

InitTrainer ==
    \E args \in {a \in ArgsSpace({1}, {1}) :
                    /\ a.rationale_tagger /\ a.rationale_binary /\ ~a.fine_tuning
                    /\ ~a.importance_score /\ ~a.domain_knowledge
                    /\ ~a.rationale_regulation} :
        \E model \in TrainerModels, eval_iteration \in 0..MaxEvalIteration :
            /\ self = Rationalizer(args)
            /\ history_rewards = InitHistory(args)
            /\ grad = [p \in ParamSets |-> {}]
            /\ updated = [p \in ParamSets |-> 0]
            /\ calls = 0
            /\ last = [op |-> "__init__", status |-> "returned",
                       batch |-> None, net |-> None, locals |-> NoLocals]
            /\ trainer = StartTrainer(model, MaxIteration, eval_iteration)

Iterate ==
    \E metrics \in MetricOutcomes, dev \in EvalOutcomes, test \in EvalOutcomes :
        TrainIteration(metrics, dev, test)

NextTrainer == Iterate \/ TrainReturn

SpecTrainer == InitTrainer /\ [][NextTrainer]_vars

----------------------------------------------------------------------------
(* C16: the train-split records                                             *)

\* The loop index of the n-th evaluation point (n = 1, 2, ...) and the iterations
\* executed since the evaluation point before it.
EvalIndex(n) == (n - 1) * trainer.eval_iteration

StepsSince(n) ==
    IF n = 1 THEN {0} ELSE (EvalIndex(n - 1) + 1)..EvalIndex(n)

\* C16: every train-split record (accuracy, anti-accuracy, sparsity, continuity)
\* appended at an evaluation point is the mean of the per-batch metric over
\* exactly the training steps executed since the previous evaluation point, or
\* since the start of training for the first one, and there is one record for
\* every evaluation point the loop has passed.
C16_TrainRecordsAreWindowMeans ==
    (trainer.status \in {"running", "returned"} /\ trainer.eval_iteration # 0) =>
        /\ Len(trainer.train)
               = Cardinality({i \in 0..(trainer.i - 1) : i % trainer.eval_iteration = 0})
        /\ \A n \in DOMAIN trainer.train : \A k \in 1..4 :
               trainer.train[n][k]
                   = RDiv(SumSeq([j \in 1..Cardinality(StepsSince(n)) |->
                              trainer.log[EvalIndex(n) - Cardinality(StepsSince(n)) + j + 1][k]]),
                          Num(Cardinality(StepsSince(n))))

----------------------------------------------------------------------------
(* C17: train and train_one_step                                            *)

\* C17: every iteration of train on a Rationalizer completes its training step:
\* train passes the arguments train_one_step requires, unpacks the values it
\* returns, and reaches the metric update without an error, with or without an
\* anti classifier.
C17_TrainerFitsTrainOneStep ==
    (/\ trainer.model = "Rationalizer"
     /\ (trainer.i > 0 \/ trainer.status # "running")) =>
        /\ Len(TrainerPasses) = Len(TrainOneStepParams)
        /\ Len(TrainerUnpacks) = Len(TrainOneStepReturns)
        /\ trainer.status \in {"running", "returned"}
        /\ Len(trainer.log) = trainer.i

----------------------------------------------------------------------------
(* C18: the embedding table and the optimizers                              *)

\* C18: with hard rationales no optimizer holds the embedding table (the tagger's
\* holds tagger parameters only, the classifier's classifier parameters only, the
\* anti classifier's anti-classifier parameters only), so no sequence of
\* train_one_step calls updates the table, fine-tuned or not; with soft rationales
\* the classifier optimizer, and it alone, holds the table when fine-tuning is on,
\* together with the tagger's and the classifier's parameters.
C18_EmbeddingTableAndOptimizers ==
    /\ self.rationale_binary =>
           /\ \A o \in OptNames : "embed" \notin self.opts[o]
           /\ self.opts["opt_tagger"] \subseteq {"tagger"}
           /\ self.opts["opt_classifier"] \subseteq {"classifier"}
           /\ updated["embed"] = 0
    /\ self.opts["opt_anti_classifier"] \subseteq {"anti_classifier"}
    /\ SoftModel =>
           /\ self.opts["opt_classifier"]
                  = {"tagger", "classifier"}
                    \cup (IF self.args.fine_tuning THEN {"embed"} ELSE {})
           /\ self.opts["opt_tagger"] = {}
    /\ updated["embed"] > 0 => SoftModel /\ self.args.fine_tuning

\* C18 witness: after two calls on a hard-rationale model that fine-tunes its
\* table, the table holds gradient of the classifier loss, the classifier has
\* been updated twice and the table never.
C18_Witness ==
    /\ HardModel /\ self.args.fine_tuning /\ calls = 2
    /\ last.op = "train_one_step"
    /\ "classifier" \in grad["embed"]
    /\ updated["classifier"] = 2
    /\ updated["embed"] = 0

============================================================================
